---------------------------- MODULE Spec2Model ----------------------------
(* The precedence-climbing expression parser of parsing_math/src/lib.rs,  *)
(* as a state machine: the token slice, the cursor, and the call stack of *)
(* the five mutually recursive productions, one action per stretch of     *)
(* code between two calls or returns.                                     *)
EXTENDS Integers, Sequences, FiniteSets, TLC

VARIABLES tokens, pos, stack, retv, outcome, err, result, round, orig

vars == <<tokens, pos, stack, retv, outcome, err, result, round, orig>>

(* ------------------------------ bounds ------------------------------- *)

\* longest input drawn from the full token alphabet
MaxLen == 4
\* most binary operators in an input NumLit (op NumLit)*
MaxOps == 4
\* longest input drawn from identifiers, parentheses and minus
MaxNestLen == 7
\* longest input drawn from identifiers, parentheses, minus and times
MaxMixLen == 6

MaxCutLen == 5

(* ------------------------------ tokens ------------------------------- *)

\* enum Token: a token is its variant and, for Id and NumLit, its payload
Tok(k, v) == [k |-> k, v |-> v]

TokEof == Tok("Eof", 0)

PlainKinds == {"Eof", "LParen", "RParen", "Plus", "Minus", "Times", "Divide", "Modulo"}

LeafKinds == {"Id", "NumLit"}

TokenKinds == PlainKinds \cup LeafKinds

BinOpKinds == {"Plus", "Minus", "Times", "Divide", "Modulo"}

(* ---------------------------- precedence ----------------------------- *)

PrecNone == 0
PrecAdd == 1
PrecMul == 2

\* the floor of the climb set to the value below every operator
PrecMIN_none == PrecNone

PrecMIN == PrecAdd

\* > where >= is meant
is_at_least_strict(self, other) == self > other

is_at_least(self, other) == self >= other

\* >= where > is meant
is_higher_than_or_equal(self, other) == self >= other

is_higher_than(self, other) == self > other

\* Modulo listed with Plus and Minus
precedence_modulo_low(t) ==
    CASE t.k \in {"Plus", "Minus", "Modulo"} -> PrecAdd
      [] t.k \in {"Times", "Divide"} -> PrecMul
      [] OTHER -> PrecNone

precedence(t) ==
    CASE t.k \in {"Plus", "Minus"} -> PrecAdd
      [] t.k \in {"Times", "Divide", "Modulo"} -> PrecMul
      [] OTHER -> PrecNone

\* to_binop panics on a token that is no operator
to_binop_panics(t) == t.k \notin BinOpKinds

to_binop(t) ==
    CASE t.k = "Plus" -> "Add"
      [] t.k = "Minus" -> "Sub"
      [] t.k = "Times" -> "Mul"
      [] t.k = "Divide" -> "Div"
      [] t.k = "Modulo" -> "Mod"
      [] OTHER -> "Panic"

(* -------------------------------- AST -------------------------------- *)

NoNode == [type |-> "None"]

ast_id(name) == [type |-> "Id", v |-> name]

ast_num(val) == [type |-> "Num", v |-> val]

ast_neg(operand) == [type |-> "Negate", lhs |-> operand]

ast_bin(lhs, op, rhs) == [type |-> "Bin", op |-> op, lhs |-> lhs, rhs |-> rhs]

ast_call(callee, arg) == [type |-> "Call", callee |-> callee, arg |-> arg]

(* ------------------------------ results ------------------------------ *)

ErrPrimary == "expected an identifier, number, or parenthesized expression"
ErrRParen == "expected a right parenthesis"
ErrEof == "expected eof (there's extra stuff after the expression)"

NoRet == [st |-> "none", val |-> NoNode, err |-> ""]

Ok(node) == [st |-> "ok", val |-> node, err |-> ""]

Err(msg) == [st |-> "err", val |-> NoNode, err |-> msg]

(* ------------------------------ cursor ------------------------------- *)

\* Parser::cur
cur == IF pos < Len(tokens) THEN tokens[pos + 1] ELSE TokEof

\* the assertion of Parser::next
next_asserts == pos < Len(tokens)

(* ---------------------------- call stack ----------------------------- *)

Frame(fn, pc) ==
    [fn |-> fn, pc |-> pc, lhs |-> NoNode, rhs |-> NoNode, op |-> TokEof,
     min_prec |-> PrecNone]

Top == stack[Len(stack)]

Below == SubSeq(stack, 1, Len(stack) - 1)

Running(fn, pc) ==
    /\ outcome = "running"
    /\ Len(stack) > 0
    /\ Top.fn = fn
    /\ Top.pc = pc

\* the top frame moves on to `fr` and calls `callee`
CallFrom(fr, callee) == stack' = Append(Append(Below, fr), callee)

\* the top frame returns `r` to its caller
Return(r) ==
    /\ stack' = Below
    /\ retv' = r

\* an assertion or panic!() ends the program
Panic ==
    /\ outcome' = "panic"
    /\ UNCHANGED <<tokens, pos, stack, retv, err, result, round, orig>>


(* ------------------------------ inputs ------------------------------- *)

\* a token of variant k at index i; an Id or NumLit carries its index as payload
TokAt(k, i) == IF k \in LeafKinds THEN Tok(k, i) ELSE Tok(k, 0)

FromKinds(ks) == [i \in 1..Len(ks) |-> TokAt(ks[i], i)]

\* NumLit (op NumLit)* Eof with n operators
ArithKinds(ops) ==
    [i \in 1..(2 * Len(ops) + 2) |->
        IF i = 2 * Len(ops) + 2 THEN "Eof"
        ELSE IF i % 2 = 1 THEN "NumLit" ELSE ops[i \div 2]]

NestKinds == {"Id", "LParen", "RParen", "Minus"}

MixKinds == {"Id", "LParen", "RParen", "Minus", "Times"}

CutKinds == {"NumLit", "Plus", "LParen", "RParen", "Eof"}

\* the families of inputs: any tokens; NumLit (op NumLit)* Eof; identifiers,
\* parentheses and minus signs; the same with the times sign; numbers, plus
\* signs, parentheses and end-of-input markers anywhere
Families == {"any", "arith", "nest", "mix", "cut"}

FamilyKinds(f) ==
    CASE f = "any" -> TokenKinds
      [] f = "arith" -> BinOpKinds
      [] f = "nest" -> NestKinds
      [] f = "mix" -> MixKinds
      [] f = "cut" -> CutKinds

FamilyLen(f) ==
    CASE f = "any" -> MaxLen
      [] f = "arith" -> MaxOps
      [] f = "nest" -> MaxNestLen
      [] f = "mix" -> MaxMixLen
      [] f = "cut" -> MaxCutLen

\* the inputs the design names: 1 + 2 * 3, 1 * 2 + 3, -2 + 3, f(1)(2), (1 + 2, 1 2,
\* f(1, and 1 ), each ended by the end-of-input marker
NamedInputs ==
    {<<"NumLit", "Plus", "NumLit", "Times", "NumLit", "Eof">>,
     <<"NumLit", "Times", "NumLit", "Plus", "NumLit", "Eof">>,
     <<"Minus", "NumLit", "Plus", "NumLit", "Eof">>,
     <<"Id", "LParen", "NumLit", "RParen", "LParen", "NumLit", "RParen", "Eof">>,
     <<"LParen", "NumLit", "Plus", "NumLit", "Eof">>,
     <<"NumLit", "NumLit", "Eof">>,
     <<"Id", "LParen", "NumLit", "Eof">>,
     <<"NumLit", "RParen", "Eof">>}

FamilyInput(f, ks) == IF f = "arith" THEN FromKinds(ArithKinds(ks)) ELSE FromKinds(ks)

(* ------------------------------- Init -------------------------------- *)

\* pub fn parse_exp is entered with a token slice; Parser::new sets pos to 0
Init ==
    /\ \/ \E ks \in NamedInputs : tokens = FromKinds(ks)
       \/ \E f \in Families : \E n \in 0..FamilyLen(f) :
            \E ks \in [1..n -> FamilyKinds(f)] : tokens = FamilyInput(f, ks)
    /\ pos = 0
    /\ stack = <<Frame("parse_exp_pub", "start")>>
    /\ retv = NoRet
    /\ outcome = "running"
    /\ err = ""
    /\ result = NoNode
    /\ round = 0
    /\ orig = NoNode

(* ------------------------- pub fn parse_exp -------------------------- *)

\* let ret = p.parse_exp()
parse_exp_pub_start ==
    /\ Running("parse_exp_pub", "start")
    /\ CallFrom([Top EXCEPT !.pc = "ret"], Frame("parse_exp", "start"))
    /\ UNCHANGED <<tokens, pos, retv, outcome, err, result, round, orig>>

\* the end of the slice looked for, not the current token
expect_eof_at_end == pos >= Len(tokens)

\* the end of the input not looked for
expect_eof_unchecked == TRUE

\* Parser::expect_eof
expect_eof_ok == cur.k = "Eof"

\* the end-of-input marker consumed when it is there
parse_exp_pub_eof_consume ==
    /\ Running("parse_exp_pub", "ret")
    /\ retv.st = "ok"
    /\ stack' = <<>>
    /\ IF expect_eof_ok
       THEN /\ outcome' = "ok"
            /\ result' = retv.val
            /\ err' = err
            /\ pos' = IF next_asserts THEN pos + 1 ELSE pos
       ELSE /\ outcome' = "err"
            /\ err' = ErrEof
            /\ result' = result
            /\ pos' = pos
    /\ UNCHANGED <<tokens, retv, round, orig>>

\* p.expect_eof()?; Ok(ret)
parse_exp_pub_eof ==
    /\ Running("parse_exp_pub", "ret")
    /\ retv.st = "ok"
    /\ stack' = <<>>
    /\ IF expect_eof_ok
       THEN /\ outcome' = "ok"
            /\ result' = retv.val
            /\ err' = err
       ELSE /\ outcome' = "err"
            /\ err' = ErrEof
            /\ result' = result
    /\ UNCHANGED <<tokens, pos, retv, round, orig>>

(* ------------------------- Parser::parse_exp ------------------------- *)

\* let lhs = self.parse_term()
parse_exp_start ==
    /\ Running("parse_exp", "start")
    /\ CallFrom([Top EXCEPT !.pc = "term"], Frame("parse_term", "start"))
    /\ UNCHANGED <<tokens, pos, retv, outcome, err, result, round, orig>>

\* self.parse_binops(lhs, Precedence::MIN)
parse_exp_binops ==
    /\ Running("parse_exp", "term")
    /\ retv.st = "ok"
    /\ CallFrom([Top EXCEPT !.pc = "binops"],
                [Frame("parse_binops", "loop") EXCEPT !.lhs = retv.val,
                                                      !.min_prec = PrecMIN])
    /\ retv' = NoRet
    /\ UNCHANGED <<tokens, pos, outcome, err, result, round, orig>>

\* the value of parse_binops is the value of parse_exp
parse_exp_ret ==
    /\ Running("parse_exp", "binops")
    /\ retv.st = "ok"
    /\ Return(retv)
    /\ UNCHANGED <<tokens, pos, outcome, err, result, round, orig>>

(* ------------------------ Parser::parse_binops ----------------------- *)

\* the outer loop's test
binops_continues == is_at_least(precedence(cur), Top.min_prec)

\* the operator captured and not stepped over
parse_binops_op_stay ==
    /\ Running("parse_binops", "loop")
    /\ binops_continues
    /\ CallFrom([Top EXCEPT !.op = cur, !.pc = "rhs"], Frame("parse_term", "start"))
    /\ UNCHANGED <<tokens, pos, retv, outcome, err, result, round, orig>>

\* one turn of the outer loop up to the call of parse_term
parse_binops_op ==
    /\ Running("parse_binops", "loop")
    /\ binops_continues
    /\ IF next_asserts
       THEN /\ pos' = pos + 1
            /\ CallFrom([Top EXCEPT !.op = cur, !.pc = "rhs"],
                        Frame("parse_term", "start"))
            /\ UNCHANGED <<tokens, retv, outcome, err, result, round, orig>>
       ELSE Panic

\* the outer loop ends: Ok(lhs)
parse_binops_ret ==
    /\ Running("parse_binops", "loop")
    /\ ~binops_continues
    /\ Return(Ok(Top.lhs))
    /\ UNCHANGED <<tokens, pos, outcome, err, result, round, orig>>

\* let mut rhs = self.parse_term()?
parse_binops_rhs ==
    /\ Running("parse_binops", "rhs")
    /\ retv.st = "ok"
    /\ stack' = Append(Below, [Top EXCEPT !.rhs = retv.val, !.pc = "inner"])
    /\ retv' = NoRet
    /\ UNCHANGED <<tokens, pos, outcome, err, result, round, orig>>

\* the inner loop's test
binops_climbs == is_higher_than(precedence(cur), precedence(Top.op))

\* one turn of the inner loop: self.parse_binops(rhs, self.cur().precedence())
parse_binops_climb ==
    /\ Running("parse_binops", "inner")
    /\ binops_climbs
    /\ CallFrom([Top EXCEPT !.pc = "climbed"],
                [Frame("parse_binops", "loop") EXCEPT !.lhs = Top.rhs,
                                                      !.min_prec = precedence(cur)])
    /\ UNCHANGED <<tokens, pos, retv, outcome, err, result, round, orig>>

\* rhs = self.parse_binops(..)?
parse_binops_climbed ==
    /\ Running("parse_binops", "climbed")
    /\ retv.st = "ok"
    /\ stack' = Append(Below, [Top EXCEPT !.rhs = retv.val, !.pc = "inner"])
    /\ retv' = NoRet
    /\ UNCHANGED <<tokens, pos, outcome, err, result, round, orig>>

\* the operands of AstNode::bin exchanged
parse_binops_glob_swapped ==
    /\ Running("parse_binops", "inner")
    /\ ~binops_climbs
    /\ IF to_binop_panics(Top.op)
       THEN Panic
       ELSE /\ stack' = Append(Below,
                [Top EXCEPT !.lhs = ast_bin(Top.rhs, to_binop(Top.op), Top.lhs),
                            !.rhs = NoNode, !.pc = "loop"])
            /\ UNCHANGED <<tokens, pos, retv, outcome, err, result, round, orig>>

\* the inner loop ends: lhs = AstNode::bin(lhs, op.to_binop(), rhs)
parse_binops_glob ==
    /\ Running("parse_binops", "inner")
    /\ ~binops_climbs
    /\ IF to_binop_panics(Top.op)
       THEN Panic
       ELSE /\ stack' = Append(Below,
                [Top EXCEPT !.lhs = ast_bin(Top.lhs, to_binop(Top.op), Top.rhs),
                            !.rhs = NoNode, !.pc = "loop"])
            /\ UNCHANGED <<tokens, pos, retv, outcome, err, result, round, orig>>

(* ------------------------- Parser::parse_term ------------------------ *)

\* the match of parse_term
term_is_negation == cur.k = "Minus"

\* the operand of a negation parsed as an Exp
parse_term_minus_exp ==
    /\ Running("parse_term", "start")
    /\ term_is_negation
    /\ IF next_asserts
       THEN /\ pos' = pos + 1
            /\ CallFrom([Top EXCEPT !.pc = "operand"], Frame("parse_exp", "start"))
            /\ UNCHANGED <<tokens, retv, outcome, err, result, round, orig>>
       ELSE Panic

\* Token::Minus: self.next(); self.parse_term()
parse_term_minus ==
    /\ Running("parse_term", "start")
    /\ term_is_negation
    /\ IF next_asserts
       THEN /\ pos' = pos + 1
            /\ CallFrom([Top EXCEPT !.pc = "operand"], Frame("parse_term", "start"))
            /\ UNCHANGED <<tokens, retv, outcome, err, result, round, orig>>
       ELSE Panic

\* Ok(AstNode::neg(operand))
parse_term_neg ==
    /\ Running("parse_term", "operand")
    /\ retv.st = "ok"
    /\ Return(Ok(ast_neg(retv.val)))
    /\ UNCHANGED <<tokens, pos, outcome, err, result, round, orig>>

\* any other token: self.parse_primary()
parse_term_primary ==
    /\ Running("parse_term", "start")
    /\ ~term_is_negation
    /\ CallFrom([Top EXCEPT !.pc = "primary"], Frame("parse_primary", "start"))
    /\ UNCHANGED <<tokens, pos, retv, outcome, err, result, round, orig>>

\* self.parse_postfix(pri)
parse_term_postfix ==
    /\ Running("parse_term", "primary")
    /\ retv.st = "ok"
    /\ CallFrom([Top EXCEPT !.pc = "postfix"],
                [Frame("parse_postfix", "loop") EXCEPT !.lhs = retv.val])
    /\ retv' = NoRet
    /\ UNCHANGED <<tokens, pos, outcome, err, result, round, orig>>

\* the value of parse_postfix is the value of parse_term
parse_term_ret ==
    /\ Running("parse_term", "postfix")
    /\ retv.st = "ok"
    /\ Return(retv)
    /\ UNCHANGED <<tokens, pos, outcome, err, result, round, orig>>

(* ------------------------ Parser::expect_rparen ---------------------- *)

\* the end of the input taken to close every parenthesis
expect_rparen_or_eof == cur.k \in {"RParen", "Eof"}

expect_rparen_ok == cur.k = "RParen"

(* ------------------------ Parser::parse_primary ---------------------- *)

\* Token::Id(name): self.next(); Ok(AstNode::id(&name))
parse_primary_id ==
    /\ Running("parse_primary", "start")
    /\ cur.k = "Id"
    /\ IF next_asserts
       THEN /\ pos' = pos + 1
            /\ Return(Ok(ast_id(cur.v)))
            /\ UNCHANGED <<tokens, outcome, err, result, round, orig>>
       ELSE Panic

\* Token::NumLit(val): self.next(); Ok(AstNode::num(val))
parse_primary_num ==
    /\ Running("parse_primary", "start")
    /\ cur.k = "NumLit"
    /\ IF next_asserts
       THEN /\ pos' = pos + 1
            /\ Return(Ok(ast_num(cur.v)))
            /\ UNCHANGED <<tokens, outcome, err, result, round, orig>>
       ELSE Panic

\* a Term, not an Exp, parsed between the parentheses
parse_primary_lparen_term ==
    /\ Running("parse_primary", "start")
    /\ cur.k = "LParen"
    /\ IF next_asserts
       THEN /\ pos' = pos + 1
            /\ CallFrom([Top EXCEPT !.pc = "paren"], Frame("parse_term", "start"))
            /\ UNCHANGED <<tokens, retv, outcome, err, result, round, orig>>
       ELSE Panic

\* Token::LParen: self.next(); self.parse_exp()
parse_primary_lparen ==
    /\ Running("parse_primary", "start")
    /\ cur.k = "LParen"
    /\ IF next_asserts
       THEN /\ pos' = pos + 1
            /\ CallFrom([Top EXCEPT !.pc = "paren"], Frame("parse_exp", "start"))
            /\ UNCHANGED <<tokens, retv, outcome, err, result, round, orig>>
       ELSE Panic

\* self.expect_rparen()?; Ok(ret)
parse_primary_rparen ==
    /\ Running("parse_primary", "paren")
    /\ retv.st = "ok"
    /\ IF expect_rparen_ok
       THEN IF next_asserts
            THEN /\ pos' = pos + 1
                 /\ Return(retv)
                 /\ UNCHANGED <<tokens, outcome, err, result, round, orig>>
            ELSE Panic
       ELSE /\ Return(Err(ErrRParen))
            /\ UNCHANGED <<tokens, pos, outcome, err, result, round, orig>>

\* the arms of parse_primary's match that start a primary
starts_primary(t) == t.k \in {"Id", "NumLit", "LParen"}

\* the offending token consumed before the Err
parse_primary_err_advance ==
    /\ Running("parse_primary", "start")
    /\ ~starts_primary(cur)
    /\ IF next_asserts
       THEN /\ pos' = pos + 1
            /\ Return(Err(ErrPrimary))
            /\ UNCHANGED <<tokens, outcome, err, result, round, orig>>
       ELSE Panic

\* t => Err(..)
parse_primary_err ==
    /\ Running("parse_primary", "start")
    /\ ~starts_primary(cur)
    /\ Return(Err(ErrPrimary))
    /\ UNCHANGED <<tokens, pos, outcome, err, result, round, orig>>

(* ------------------------ Parser::parse_postfix ---------------------- *)

\* the match of parse_postfix's loop
postfix_is_call == cur.k = "LParen"

\* Token::LParen: self.next(); self.parse_exp()
parse_postfix_lparen ==
    /\ Running("parse_postfix", "loop")
    /\ postfix_is_call
    /\ IF next_asserts
       THEN /\ pos' = pos + 1
            /\ CallFrom([Top EXCEPT !.pc = "arg"], Frame("parse_exp", "start"))
            /\ UNCHANGED <<tokens, retv, outcome, err, result, round, orig>>
       ELSE Panic

\* one call and no more: the loop left after the first call
parse_postfix_rparen_once ==
    /\ Running("parse_postfix", "arg")
    /\ retv.st = "ok"
    /\ IF expect_rparen_ok
       THEN IF next_asserts
            THEN /\ pos' = pos + 1
                 /\ Return(Ok(ast_call(Top.lhs, retv.val)))
                 /\ UNCHANGED <<tokens, outcome, err, result, round, orig>>
            ELSE Panic
       ELSE /\ Return(Err(ErrRParen))
            /\ UNCHANGED <<tokens, pos, outcome, err, result, round, orig>>

\* self.expect_rparen()?; lhs = AstNode::call(lhs, arg)
parse_postfix_rparen ==
    /\ Running("parse_postfix", "arg")
    /\ retv.st = "ok"
    /\ IF expect_rparen_ok
       THEN IF next_asserts
            THEN /\ pos' = pos + 1
                 /\ stack' = Append(Below,
                        [Top EXCEPT !.lhs = ast_call(Top.lhs, retv.val), !.pc = "loop"])
                 /\ retv' = NoRet
                 /\ UNCHANGED <<tokens, outcome, err, result, round, orig>>
            ELSE Panic
       ELSE /\ Return(Err(ErrRParen))
            /\ UNCHANGED <<tokens, pos, outcome, err, result, round, orig>>

\* _ => break; Ok(lhs)
parse_postfix_ret ==
    /\ Running("parse_postfix", "loop")
    /\ ~postfix_is_call
    /\ Return(Ok(Top.lhs))
    /\ UNCHANGED <<tokens, pos, outcome, err, result, round, orig>>

(* ------------------------- the ? operator ---------------------------- *)

\* a callee's Err leaves the caller at once, unchanged; out of pub fn
\* parse_exp it is the caller's result
propagate_err ==
    /\ outcome = "running"
    /\ Len(stack) > 0
    /\ retv.st = "err"
    /\ stack' = Below
    /\ IF Top.fn = "parse_exp_pub"
       THEN /\ outcome' = "err"
            /\ err' = retv.err
       ELSE UNCHANGED <<outcome, err>>
    /\ UNCHANGED <<tokens, pos, retv, result, round, orig>>

(* ----------------------- rendering and re-parse ---------------------- *)

OpToken(op) ==
    CASE op = "Add" -> Tok("Plus", 0)
      [] op = "Sub" -> Tok("Minus", 0)
      [] op = "Mul" -> Tok("Times", 0)
      [] op = "Div" -> Tok("Divide", 0)
      [] op = "Mod" -> Tok("Modulo", 0)

RECURSIVE Render(_)
\* the tree as tokens, every operator's grouping explicit:
\* "({} {} {})" for a binary operation, "-({})" for a negation, the callee
\* followed by "({})" for a call, the token itself for a leaf
Render(n) ==
    CASE n.type = "Id" -> <<Tok("Id", n.v)>>
      [] n.type = "Num" -> <<Tok("NumLit", n.v)>>
      [] n.type = "Negate" ->
            <<Tok("Minus", 0), Tok("LParen", 0)>> \o Render(n.lhs) \o <<Tok("RParen", 0)>>
      [] n.type = "Bin" ->
            <<Tok("LParen", 0)>> \o Render(n.lhs) \o <<OpToken(n.op)>>
                \o Render(n.rhs) \o <<Tok("RParen", 0)>>
      [] n.type = "Call" ->
            Render(n.callee) \o <<Tok("LParen", 0)>> \o Render(n.arg)
                \o <<Tok("RParen", 0)>>

\* the tree of a successful parse is rendered and the rendering parsed
reparse ==
    /\ outcome = "ok"
    /\ round = 0
    /\ tokens' = Render(result)
    /\ orig' = result
    /\ round' = 1
    /\ pos' = 0
    /\ stack' = <<Frame("parse_exp_pub", "start")>>
    /\ retv' = NoRet
    /\ outcome' = "running"
    /\ err' = ""
    /\ result' = NoNode

\* the tokens before the first end-of-input marker
UntilEof(toks) ==
    LET eofs == {i \in 1..Len(toks) : toks[i].k = "Eof"}
    IN  IF eofs = {} THEN toks
        ELSE SubSeq(toks, 1, (CHOOSE i \in eofs : \A j \in eofs : i <= j) - 1)

\* a parse of tokens that hold an Eof before their last token has ended:
\* parse_exp is called with the tokens before that Eof
reparse_prefix ==
    /\ outcome \in {"ok", "err"}
    /\ round = 0
    /\ \E i \in 1..(Len(tokens) - 1) : tokens[i].k = "Eof"
    /\ tokens' = UntilEof(tokens)
    /\ orig' = result
    /\ round' = 2
    /\ pos' = 0
    /\ stack' = <<Frame("parse_exp_pub", "start")>>
    /\ retv' = NoRet
    /\ outcome' = "running"
    /\ err' = ""
    /\ result' = NoNode

(* ------------------------------- Next -------------------------------- *)

Next ==
    \/ parse_exp_pub_start
    \/ parse_exp_pub_eof
    \/ parse_exp_start
    \/ parse_exp_binops
    \/ parse_exp_ret
    \/ parse_binops_op
    \/ parse_binops_ret
    \/ parse_binops_rhs
    \/ parse_binops_climb
    \/ parse_binops_climbed
    \/ parse_binops_glob
    \/ parse_term_minus
    \/ parse_term_neg
    \/ parse_term_primary
    \/ parse_term_postfix
    \/ parse_term_ret
    \/ parse_primary_id
    \/ parse_primary_num
    \/ parse_primary_lparen
    \/ parse_primary_rparen
    \/ parse_primary_err
    \/ parse_postfix_lparen
    \/ parse_postfix_rparen
    \/ parse_postfix_ret
    \/ propagate_err
    \/ reparse
    \/ reparse_prefix

Spec == Init /\ [][Next]_vars

(* the machine's types *)
TypeOK ==
    /\ pos \in 0..Len(tokens)
    /\ outcome \in {"running", "ok", "err", "panic"}
    /\ round \in {0, 1, 2}

(* ============================ properties ============================= *)

Kinds(toks) == [i \in 1..Len(toks) |-> toks[i].k]

AddKinds == {"Plus", "Minus"}

MulKinds == {"Times", "Divide", "Modulo"}

\* the operation an operator token stands for, by the language's definition
RefOp(k) ==
    CASE k = "Plus" -> "Add"
      [] k = "Minus" -> "Sub"
      [] k = "Times" -> "Mul"
      [] k = "Divide" -> "Div"
      [] k = "Modulo" -> "Mod"

\* NumLit (op NumLit)* Eof
IsArith(toks) ==
    /\ Len(toks) >= 2
    /\ Len(toks) % 2 = 0
    /\ \A i \in 1..Len(toks) :
          IF i = Len(toks) THEN toks[i].k = "Eof"
          ELSE IF i % 2 = 1 THEN toks[i].k = "NumLit"
          ELSE toks[i].k \in BinOpKinds

RECURSIVE RefProdLoop(_, _, _)
\* Prod := NumLit (('*'|'/'|'%') NumLit)*, folded to the left, from operator p on
RefProdLoop(toks, t, p) ==
    IF toks[p].k \in MulKinds
    THEN RefProdLoop(toks, ast_bin(t, RefOp(toks[p].k), ast_num(toks[p + 1].v)), p + 2)
    ELSE [t |-> t, p |-> p]

RECURSIVE RefSumLoop(_, _, _)
\* Sum := Prod (('+'|'-') Prod)*, folded to the left, from operator p on
RefSumLoop(toks, t, p) ==
    IF toks[p].k \in AddKinds
    THEN LET r == RefProdLoop(toks, ast_num(toks[p + 1].v), p + 2)
         IN  RefSumLoop(toks, ast_bin(t, RefOp(toks[p].k), r.t), r.p)
    ELSE t

RefSum(toks) ==
    LET f == RefProdLoop(toks, ast_num(toks[1].v), 2)
    IN  RefSumLoop(toks, f.t, f.p)

\* C1: on NumLit (op NumLit)* Eof the parse never fails or stops half way, and
\* its tree is the tree of the stratified grammar Sum/Prod folded to the left:
\* 1 + 2 * 3 is Add(1, Mul(2, 3)) and 1 * 2 + 3 is Add(Mul(1, 2), 3)
C1_ArithMatchesStratifiedGrammar ==
    (round = 0 /\ IsArith(tokens)) =>
        /\ outcome \in {"running", "ok"}
        /\ outcome = "running" => ENABLED Next
        /\ outcome = "ok" => result = RefSum(tokens)
        /\ (outcome = "ok" /\ Kinds(tokens) = <<"NumLit", "Plus", "NumLit", "Times", "NumLit", "Eof">>)
              => result = ast_bin(ast_num(1), "Add", ast_bin(ast_num(3), "Mul", ast_num(5)))
        /\ (outcome = "ok" /\ Kinds(tokens) = <<"NumLit", "Times", "NumLit", "Plus", "NumLit", "Eof">>)
              => result = ast_bin(ast_bin(ast_num(1), "Mul", ast_num(3)), "Add", ast_num(5))

\* 1 + 2 * 3 - 4 has been parsed
C1_Witness ==
    /\ outcome = "ok"
    /\ round = 0
    /\ Kinds(tokens) = <<"NumLit", "Plus", "NumLit", "Times", "NumLit", "Minus", "NumLit", "Eof">>
    /\ result = ast_bin(ast_bin(ast_num(1), "Add", ast_bin(ast_num(3), "Mul", ast_num(5))),
                        "Sub", ast_num(7))

(* ------------------------- reading the tokens ------------------------ *)

\* the tokens before the end-of-input marker
Body(toks) ==
    LET eofs == {i \in 1..Len(toks) : toks[i].k = "Eof"}
        n == IF eofs = {} THEN Len(toks) + 1 ELSE CHOOSE i \in eofs : \A j \in eofs : i <= j
    IN  SubSeq(toks, 1, n - 1)

\* the parentheses open before token i
Depth(toks, i) ==
    Cardinality({j \in 1..(i - 1) : toks[j].k = "LParen"})
        - Cardinality({j \in 1..(i - 1) : toks[j].k = "RParen"})

\* token i follows a complete term
AfterTerm(toks, i) == i > 1 /\ toks[i - 1].k \in {"Id", "NumLit", "RParen"}

\* token i is an operator sign between two terms
BinaryAt(toks, i) == toks[i].k \in BinOpKinds /\ AfterTerm(toks, i)

\* token i is a minus sign where a term starts
UnaryAt(toks, i) == toks[i].k = "Minus" /\ ~AfterTerm(toks, i)

RECURSIVE Sorted(_)
\* a set of numbers as an increasing sequence
Sorted(S) ==
    IF S = {} THEN <<>>
    ELSE LET m == CHOOSE x \in S : \A y \in S : x <= y
         IN  <<m>> \o Sorted(S \ {m})

\* the binary operators outside every parenthesis, in input order
TopOps(toks) == Sorted({i \in 1..Len(toks) : BinaryAt(toks, i) /\ Depth(toks, i) = 0})

IsLeafTok(t) == t.k \in LeafKinds

\* the Id and NumLit tokens among tokens a..b
LeafToks(toks, a, b) == SelectSeq(SubSeq(toks, a, b), IsLeafTok)

RECURSIVE Leaves(_)
\* the leaves of a tree from left to right, each as the token it came from
Leaves(n) ==
    CASE n.type = "Id" -> <<Tok("Id", n.v)>>
      [] n.type = "Num" -> <<Tok("NumLit", n.v)>>
      [] n.type = "Negate" -> Leaves(n.lhs)
      [] n.type = "Bin" -> Leaves(n.lhs) \o Leaves(n.rhs)
      [] n.type = "Call" -> Leaves(n.callee) \o Leaves(n.arg)
      [] OTHER -> <<>>

RECURSIVE LeftNested(_, _, _, _)
\* node is op_k(...op_1(t_1, t_2)..., t_(k+1)) for the operators ix[1..k] of toks:
\* each right operand holds the leaves of the term after its operator, the
\* innermost left operand those of the first term
LeftNested(node, toks, ix, k) ==
    IF k = 0
    THEN Leaves(node) = LeafToks(toks, 1, ix[1] - 1)
    ELSE /\ node.type = "Bin"
         /\ node.op = RefOp(toks[ix[k]].k)
         /\ Leaves(node.rhs) =
              LeafToks(toks, ix[k] + 1, IF k = Len(ix) THEN Len(toks) ELSE ix[k + 1] - 1)
         /\ LeftNested(node.lhs, toks, ix, k - 1)

SameLevel(toks, ix) ==
    \/ \A i \in 1..Len(ix) : toks[ix[i]].k \in AddKinds
    \/ \A i \in 1..Len(ix) : toks[ix[i]].k \in MulKinds

\* C2: terms joined by operators of one precedence level nest to the left:
\* a - b - c is Sub(Sub(a, b), c)
C2_SameLevelLeftNested ==
    outcome = "ok" =>
        LET b == Body(tokens)
            ix == TopOps(b)
        IN  /\ (Len(ix) >= 1 /\ SameLevel(b, ix)) => LeftNested(result, b, ix, Len(ix))
            /\ Kinds(tokens) = <<"Id", "Minus", "Id", "Minus", "Id">>
                  => result = ast_bin(ast_bin(ast_id(1), "Sub", ast_id(3)), "Sub", ast_id(5))

\* a * -b * c has been parsed
C2_Witness ==
    /\ outcome = "ok"
    /\ Kinds(tokens) = <<"Id", "Times", "Minus", "Id", "Times", "Id">>
    /\ result = ast_bin(ast_bin(ast_id(1), "Mul", ast_neg(ast_id(4))), "Mul", ast_id(6))

(* ------------------------ terms in the tokens ------------------------ *)

\* the right parenthesis that closes the left parenthesis at i
Match(toks, i) ==
    CHOOSE j \in (i + 1)..Len(toks) :
        /\ Depth(toks, j + 1) = Depth(toks, i)
        /\ \A m \in (i + 1)..(j - 1) : Depth(toks, m + 1) > Depth(toks, i)

RECURSIVE PostfixEnd(_, _)
\* the last token of the argument groups that follow token e
PostfixEnd(toks, e) ==
    IF e < Len(toks) /\ toks[e + 1].k = "LParen"
    THEN PostfixEnd(toks, Match(toks, e + 1))
    ELSE e

\* the last token of the primary that starts at i
PrimaryEnd(toks, i) == IF toks[i].k = "LParen" THEN Match(toks, i) ELSE i

RECURSIVE TermEnd(_, _)
\* the last token of the Term that starts at i: '-' Term | Primary Postfix*
TermEnd(toks, i) ==
    IF toks[i].k = "Minus"
    THEN TermEnd(toks, i + 1)
    ELSE PostfixEnd(toks, PrimaryEnd(toks, i))

RECURSIVE Negates(_)
\* the Negate nodes of a tree, a node before those of its operand, left to right
Negates(n) ==
    CASE n.type = "Negate" -> <<n>> \o Negates(n.lhs)
      [] n.type = "Bin" -> Negates(n.lhs) \o Negates(n.rhs)
      [] n.type = "Call" -> Negates(n.callee) \o Negates(n.arg)
      [] OTHER -> <<>>

RECURSIVE CountOp(_, _)
\* the binary operations `op` of a tree
CountOp(n, op) ==
    CASE n.type = "Negate" -> CountOp(n.lhs, op)
      [] n.type = "Bin" -> (IF n.op = op THEN 1 ELSE 0) + CountOp(n.lhs, op) + CountOp(n.rhs, op)
      [] n.type = "Call" -> CountOp(n.callee, op) + CountOp(n.arg, op)
      [] OTHER -> 0

\* C3: a minus sign is a negation exactly where a Term starts and a
\* subtraction exactly after a complete Term, and a negation's operand is the
\* one Term that follows the sign: -2 + 3 is Add(Negate(2), 3), - - a is
\* Negate(Negate(a)), -a * b is Mul(Negate(a), b), a - -b is Sub(a, Negate(b))
C3_MinusUnaryAtTermStart ==
    /\ (Running("parse_term", "start") /\ cur.k = "Minus") => UnaryAt(tokens, pos + 1)
    /\ (Running("parse_binops", "loop") /\ cur.k = "Minus") => BinaryAt(tokens, pos + 1)
    /\ outcome = "ok" =>
        LET b == Body(tokens)
            un == Sorted({i \in 1..Len(b) : UnaryAt(b, i)})
            ns == Negates(result)
        IN  /\ Len(ns) = Len(un)
            /\ CountOp(result, "Sub") =
                  Cardinality({i \in 1..Len(b) : b[i].k = "Minus" /\ BinaryAt(b, i)})
            /\ \A k \in 1..Len(un) :
                  Leaves(ns[k].lhs) = LeafToks(b, un[k] + 1, TermEnd(b, un[k] + 1))
            /\ Kinds(tokens) = <<"Minus", "NumLit", "Plus", "NumLit">>
                  => result = ast_bin(ast_neg(ast_num(2)), "Add", ast_num(4))
            /\ Kinds(tokens) = <<"Minus", "Minus", "Id">>
                  => result = ast_neg(ast_neg(ast_id(3)))
            /\ Kinds(tokens) = <<"Minus", "Id", "Times", "Id">>
                  => result = ast_bin(ast_neg(ast_id(2)), "Mul", ast_id(4))
            /\ Kinds(tokens) = <<"Id", "Minus", "Minus", "Id">>
                  => result = ast_bin(ast_id(1), "Sub", ast_neg(ast_id(4)))

\* a - -b * c has been parsed
C3_Witness ==
    /\ outcome = "ok"
    /\ Kinds(tokens) = <<"Id", "Minus", "Minus", "Id", "Times", "Id">>
    /\ result = ast_bin(ast_id(1), "Sub", ast_bin(ast_neg(ast_id(4)), "Mul", ast_id(6)))

(* ------------------------ calls in the tokens ------------------------ *)

RECURSIVE Groups(_, _)
\* the argument groups that follow token e: each from its '(' to its ')'
Groups(toks, e) ==
    IF e < Len(toks) /\ toks[e + 1].k = "LParen"
    THEN LET m == Match(toks, e + 1)
         IN  <<[l |-> e + 1, r |-> m]>> \o Groups(toks, m)
    ELSE <<>>

RECURSIVE CallChain(_, _, _, _)
\* node is Call(...Call(Call(p, e_1), e_2)..., e_k) for the groups gs[1..k]
\* that follow the primary ending at token pe
CallChain(node, toks, gs, k) ==
    IF k = 0
    THEN /\ Leaves(node) = LeafToks(toks, 1, gs[1].l - 1)
         /\ IsLeafTok(toks[1]) => node \in {ast_id(toks[1].v), ast_num(toks[1].v)}
    ELSE /\ node.type = "Call"
         /\ Leaves(node.arg) = LeafToks(toks, gs[k].l, gs[k].r)
         /\ CallChain(node.callee, toks, gs, k - 1)

RECURSIVE CountCalls(_)
CountCalls(n) ==
    CASE n.type = "Negate" -> CountCalls(n.lhs)
      [] n.type = "Bin" -> CountCalls(n.lhs) + CountCalls(n.rhs)
      [] n.type = "Call" -> 1 + CountCalls(n.callee) + CountCalls(n.arg)
      [] OTHER -> 0

C4_Chains ==
    outcome = "ok" =>
        LET b == Body(tokens)
            gs == Groups(b, PrimaryEnd(b, 1))
        IN  /\ (b[1].k # "Minus" /\ Len(gs) >= 1 /\ gs[Len(gs)].r = Len(b))
                  => CallChain(result, b, gs, Len(gs))
            /\ CountCalls(result) =
                  Cardinality({i \in 1..Len(b) : b[i].k = "LParen" /\ AfterTerm(b, i)})

C4_Example ==
    Kinds(tokens) = <<"Id", "LParen", "NumLit", "RParen", "LParen", "NumLit", "RParen", "Eof">>
        => /\ outcome \in {"running", "ok"}
           /\ outcome = "ok" =>
                 result = ast_call(ast_call(ast_id(1), ast_num(3)), ast_num(6))

C4_PostfixStops ==
    (Running("parse_postfix", "loop") /\ cur.k # "LParen")
        => /\ retv' = Ok(Top.lhs)
           /\ stack' = Below
           /\ pos' = pos
           /\ outcome' = "running"

\* C4: a primary followed by n >= 1 argument groups is the left-nested
\* Call(...Call(Call(p, e1), e2)..., en), one argument to a call, f(1)(2) is
\* Call(Call(f, 1), 2); and parse_postfix returns its tree, without an error
\* and without consuming anything, at the first token that is no '('
C4_CallsChainLeft ==
    /\ [](C4_Chains /\ C4_Example)
    /\ [][C4_PostfixStops]_vars

\* f(1)(2) has been parsed
C4_Witness ==
    /\ outcome = "ok"
    /\ round = 0
    /\ Kinds(tokens) = <<"Id", "LParen", "NumLit", "RParen", "LParen", "NumLit", "RParen", "Eof">>
    /\ result = ast_call(ast_call(ast_id(1), ast_num(3)), ast_num(6))

(* ------------------------------ failures ----------------------------- *)

\* an Err on its way up: it is handed on as it is, frame by frame, no token is
\* read, and out of the outermost frame it is the result, with no tree
HandedUp(msg) ==
    (outcome = "running" /\ retv = Err(msg))
        => /\ retv' = retv
           /\ pos' = pos
           /\ tokens' = tokens
           /\ stack' = Below
           /\ result' = NoNode
           /\ \/ outcome' = "running" /\ Len(stack') > 0
              \/ outcome' = "err" /\ err' = msg /\ Len(stack') = 0

\* an Err in flight always has a frame to leave
InFlight == (outcome = "running" /\ retv.st = "err") => Len(stack) > 0

\* a parenthesis is open, its expression is parsed, and no ')' follows
ParenUnclosed ==
    /\ Running("parse_primary", "paren") \/ Running("parse_postfix", "arg")
    /\ retv.st = "ok"
    /\ cur.k # "RParen"

C5_Raised == ParenUnclosed => (retv' = Err(ErrRParen) /\ pos' = pos /\ stack' = Below)

C5_Final ==
    /\ InFlight
    /\ (outcome = "err" /\ err = ErrRParen)
          => (result = NoNode /\ cur.k # "RParen" /\ Depth(tokens, pos + 1) > 0)
    /\ Kinds(tokens) \in {<<"LParen", "NumLit", "Plus", "NumLit", "Eof">>,
                          <<"Id", "LParen", "NumLit", "Eof">>}
          => /\ outcome \in {"running", "err"}
             /\ outcome = "err" => err = ErrRParen

\* C5: when a '(' of a grouping or of a call has been consumed and the
\* expression in it parsed, and the current token is no ')', the parse fails
\* with "expected a right parenthesis", with no other error and no tree;
\* ( 1 + 2 Eof and f ( 1 Eof fail so
C5_MissingRParen ==
    /\ []C5_Final
    /\ [][C5_Raised]_vars
    /\ [][HandedUp(ErrRParen)]_vars

\* ( 1 + 2 Eof has failed for its missing ')'
C5_Witness ==
    /\ Kinds(tokens) = <<"LParen", "NumLit", "Plus", "NumLit", "Eof">>
    /\ outcome = "err"
    /\ err = ErrRParen
    /\ pos = 4

\* the outermost expression is parsed and the current token is not Eof
Trailing ==
    /\ Running("parse_exp_pub", "ret")
    /\ retv.st = "ok"
    /\ cur.k # "Eof"

C6_Raised == Trailing => (outcome' = "err" /\ err' = ErrEof /\ result' = NoNode /\ pos' = pos)

C6_Final ==
    /\ outcome = "ok" => cur.k = "Eof"
    /\ (outcome = "err" /\ err = ErrEof) => (result = NoNode /\ cur.k # "Eof" /\ pos > 0)
    /\ Kinds(tokens) \in {<<"NumLit", "NumLit", "Eof">>, <<"NumLit", "RParen", "Eof">>}
          => /\ outcome \in {"running", "err"}
             /\ outcome = "err" => (err = ErrEof /\ pos = 1)

\* C6: when the outermost expression has been parsed and the current token is
\* not the end-of-input marker, the parse fails with "expected eof" and gives
\* no tree; 1 2 Eof and 1 ) Eof fail so, one expression consuming only the 1
C6_TrailingInput ==
    /\ []C6_Final
    /\ [][C6_Raised]_vars

\* 1 2 Eof has failed for its trailing 2
C6_Witness ==
    /\ Kinds(tokens) = <<"NumLit", "NumLit", "Eof">>
    /\ outcome = "err"
    /\ err = ErrEof
    /\ pos = 1

\* a primary is expected at token i: at the start of the input, after an
\* operator sign (binary, or a unary minus), after a left parenthesis
PrimaryExpectedAt(toks, i) == i = 1 \/ toks[i - 1].k \in BinOpKinds \cup {"LParen"}

\* the token can start a primary
IsPrimaryStart(t) == t.k \in {"Id", "NumLit", "LParen"}

\* parse_primary is looking at a token that starts no primary
NoPrimary ==
    /\ Running("parse_primary", "start")
    /\ ~IsPrimaryStart(cur)

C7_Raised == NoPrimary => (retv' = Err(ErrPrimary) /\ pos' = pos /\ stack' = Below)

C7_Final ==
    /\ InFlight
    /\ Running("parse_primary", "start") => PrimaryExpectedAt(tokens, pos + 1)
    /\ outcome \in {"ok", "err"} =>
          ((outcome = "err" /\ err = ErrPrimary)
              <=> (PrimaryExpectedAt(tokens, pos + 1) /\ ~IsPrimaryStart(cur)))
    /\ (outcome = "err" /\ err = ErrPrimary) => result = NoNode
    /\ Kinds(tokens) \in {<<>>, <<"NumLit", "Plus", "Eof">>, <<"LParen", "RParen", "Eof">>,
                          <<"Minus", "Eof">>}
          => /\ outcome \in {"running", "err"}
             /\ outcome = "err" =>
                   /\ err = ErrPrimary
                   /\ pos = IF Kinds(tokens) = <<"LParen", "RParen", "Eof">> THEN 1
                            ELSE Len(Body(tokens))

\* C7: the parse fails with "expected an identifier, number, or parenthesized
\* expression" exactly when a primary is expected (at the start, after an
\* operator or a unary minus, after a left parenthesis) and the current token
\* is none of Id, NumLit, LParen; the error is handed up unchanged and no
\* further token is read; the empty input, 1 + Eof, ( ) Eof and - Eof fail so
C7_UnexpectedToken ==
    /\ []C7_Final
    /\ [][C7_Raised]_vars
    /\ [][HandedUp(ErrPrimary)]_vars

\* 1 + Eof has failed at the Eof, where a primary was expected
C7_Witness ==
    /\ Kinds(tokens) = <<"NumLit", "Plus", "Eof">>
    /\ outcome = "err"
    /\ err = ErrPrimary
    /\ pos = 2

\* the input contract: no Eof token, but for the last one
NoInnerEof(toks) == \A i \in 1..(Len(toks) - 1) : toks[i].k # "Eof"

NonEof(toks) == Cardinality({i \in 1..Len(toks) : toks[i].k # "Eof"})

\* C8: on an input with no Eof but perhaps the last token, a successful parse
\* ends with the cursor at the number of tokens that are not Eof: all of them
\* consumed, the marker not
C8_ConsumesAllButEof ==
    (outcome = "ok" /\ NoInnerEof(tokens)) => pos = NonEof(tokens)

\* f(1)(2) Eof has been parsed: the cursor is on the Eof
C8_Witness ==
    /\ outcome = "ok"
    /\ Len(tokens) = 8
    /\ tokens[8].k = "Eof"
    /\ NoInnerEof(tokens)
    /\ pos = 7

\* an action that calls next() is about to run
NextCalled ==
    \/ Running("parse_binops", "loop") /\ binops_continues
    \/ Running("parse_term", "start") /\ term_is_negation
    \/ Running("parse_primary", "start") /\ starts_primary(cur)
    \/ Running("parse_primary", "paren") /\ retv.st = "ok" /\ expect_rparen_ok
    \/ Running("parse_postfix", "loop") /\ postfix_is_call
    \/ Running("parse_postfix", "arg") /\ retv.st = "ok" /\ expect_rparen_ok

\* C9: no input makes the parse end abnormally: next() is called only with
\* pos < tokens.len(), 0 <= pos <= tokens.len() always, to_binop() is called
\* only on an operator token, and a parse that has ended is Ok or Err
C9_NoPanic ==
    /\ outcome # "panic"
    /\ pos >= 0
    /\ pos <= Len(tokens)
    /\ NextCalled => pos < Len(tokens)
    /\ Running("parse_binops", "inner") => Top.op.k \in BinOpKinds
    /\ outcome # "running" => (stack = <<>> /\ outcome \in {"ok", "err"})
    /\ outcome = "err" => err \in {ErrPrimary, ErrRParen, ErrEof}

\* an input with no physical Eof has been consumed to its very end
C9_Witness ==
    /\ outcome = "ok"
    /\ round = 0
    /\ Len(tokens) = 7
    /\ pos = Len(tokens)

(* ---------------------------- idempotence ---------------------------- *)

RECURSIVE NegCallee(_)
\* some call of the tree has a negation as its callee
NegCallee(n) ==
    CASE n.type = "Negate" -> NegCallee(n.lhs)
      [] n.type = "Bin" -> NegCallee(n.lhs) \/ NegCallee(n.rhs)
      [] n.type = "Call" -> n.callee.type = "Negate" \/ NegCallee(n.callee) \/ NegCallee(n.arg)
      [] OTHER -> FALSE

\* C10 as claimed: the rendering of every tree a parse returned parses again,
\* to the same tree
C10_Original ==
    (round = 1 /\ outcome # "running") => (outcome = "ok" /\ result = orig)

\* C10, amended: the rendering of a tree a parse returned parses again, to the
\* same tree, when no call of the tree has a negation as its callee; when one
\* has, the parse of the rendering does not give the tree back
C10_IdempotentButNegCallee ==
    (round = 1 /\ outcome # "running") =>
        IF NegCallee(orig)
        THEN ~(outcome = "ok" /\ result = orig)
        ELSE outcome = "ok" /\ result = orig

\* -a(b) has been parsed to Negate(Call(a, b)), rendered as -(a(b)) and parsed again
C10_Witness ==
    /\ round = 1
    /\ outcome = "ok"
    /\ orig = ast_neg(ast_call(ast_id(2), ast_id(4)))
    /\ tokens = <<Tok("Minus", 0), Tok("LParen", 0), Tok("Id", 2), Tok("LParen", 0),
                  Tok("Id", 4), Tok("RParen", 0), Tok("RParen", 0)>>
    /\ result = orig

(* ---------------------------- termination ---------------------------- *)

\* what a frame still has to do without a token being consumed for it: every
\* step but the consumption of a token takes from it
FrameWork(fr, climbing) ==
    CASE fr.fn = "parse_exp_pub" -> (IF fr.pc = "start" THEN 11 ELSE 1)
      [] fr.fn = "parse_exp" ->
            (CASE fr.pc = "start" -> 9 [] fr.pc = "term" -> 3 [] OTHER -> 1)
      [] fr.fn = "parse_term" ->
            (CASE fr.pc = "start" -> 5 [] fr.pc = "primary" -> 3 [] OTHER -> 1)
      [] fr.fn = "parse_primary" -> 1
      [] fr.fn = "parse_postfix" -> 1
      [] fr.fn = "parse_binops" ->
            (CASE fr.pc = "loop" -> 1
               [] fr.pc = "rhs" -> 13
               [] fr.pc = "climbed" -> 3
               [] fr.pc = "inner" -> (IF climbing THEN 12 ELSE 2))

RECURSIVE StackWork(_, _)
StackWork(st, n) ==
    IF n = 0 THEN 0
    ELSE FrameWork(st[n], n = Len(st) /\ st[n].pc = "inner" /\ binops_climbs)
            + StackWork(st, n - 1)

\* a measure of the parse that is left: a hundred for a token not yet
\* consumed, and the work of the frames
Rank == 100 * (Len(tokens) - pos) + StackWork(stack, Len(stack))

\* the parse_binops frame on top was entered from the inner loop of the frame
\* under it and has not consumed an operator yet
ClimbEntered ==
    /\ Running("parse_binops", "loop")
    /\ Len(stack) >= 2
    /\ stack[Len(stack) - 1].fn = "parse_binops"
    /\ stack[Len(stack) - 1].pc = "climbed"
    /\ Top.lhs = stack[Len(stack) - 1].rhs

C11_Measure ==
    /\ Rank >= 0
    /\ (pos = 0 /\ Len(stack) = 1 /\ Running("parse_exp_pub", "start"))
          => Rank = 100 * Len(tokens) + 11
    /\ outcome = "running" => Len(stack) > 0
    /\ ClimbEntered => binops_continues

\* every step of a parse lowers the measure
C11_Decreases == outcome = "running" => (Rank' < Rank /\ outcome' # "panic")

\* every turn of a loop and every re-entry of a production consumes a token first
C11_Advances ==
    /\ (Running("parse_binops", "loop") /\ binops_continues) => pos' = pos + 1
    /\ (Running("parse_postfix", "loop") /\ postfix_is_call) => pos' = pos + 1
    /\ (Running("parse_term", "start") /\ term_is_negation) => pos' = pos + 1
    /\ (Running("parse_primary", "start") /\ cur.k = "LParen") => pos' = pos + 1
    /\ (Len(stack') > Len(stack) /\ stack'[Len(stack')].fn = "parse_exp" /\ Len(stack) > 1)
          => pos' = pos + 1
    /\ (Len(stack') > Len(stack) /\ stack'[Len(stack')].fn = "parse_term"
            /\ Top.fn # "parse_exp")
          => pos' = pos + 1

\* C11: the parse of any token sequence ends, with a tree or an error: every
\* turn of the outer loop of parse_binops and of the loop of parse_postfix,
\* and every call that re-enters parse_term or parse_exp, consumes a token
\* first; a turn of the inner loop enters a parse_binops that consumes one;
\* and a measure that starts at 100 * len + 11 drops with every step, so the
\* steps are bounded by the length of the input
C11_Terminates ==
    /\ []C11_Measure
    /\ [][C11_Decreases]_vars
    /\ [][C11_Advances]_vars

\* a + b * c - ...: the inner loop has entered parse_binops on '*', which has
\* consumed it and its operand and returned at the '-'
C11_Witness ==
    /\ Running("parse_binops", "climbed")
    /\ retv.st = "ok"
    /\ retv.val.type = "Bin"
    /\ pos = 5
    /\ cur.k = "Minus"

(* -------------------------- the inner loop --------------------------- *)

\* a parse_binops frame returns Ok in this step
BinopsReturns ==
    /\ Running("parse_binops", "loop")
    /\ stack' = Below
    /\ retv'.st = "ok"

C12_State ==
    /\ (Running("parse_binops", "inner") /\ binops_climbs)
          => (precedence(Top.op) = PrecAdd /\ precedence(cur) = PrecMul)
    /\ ClimbEntered
          => (Top.min_prec = PrecMul /\ precedence(stack[Len(stack) - 1].op) = PrecAdd)
    /\ (Running("parse_binops", "climbed") /\ retv.st = "ok")
          => (precedence(cur) < PrecMul /\ ~is_higher_than(precedence(cur), precedence(Top.op)))
    /\ (Running("parse_exp", "binops") /\ retv.st = "ok") => precedence(cur) < PrecMIN

C12_Step ==
    /\ BinopsReturns => (precedence(cur') < Top.min_prec /\ pos' = pos)
    /\ (Running("parse_binops", "climbed") /\ retv.st = "ok")
          => (stack'[Len(stack')].pc = "inner" /\ ~binops_climbs')
    /\ (Running("parse_binops", "inner") /\ ~binops_climbs) => stack'[Len(stack')].pc = "loop"

\* C12: with two levels the body of the inner loop runs at most once in a
\* turn of the outer loop: parse_binops(rhs, Mul) is entered only with an
\* Add-level operator captured and a Mul-level token current, and when it
\* returns the current token is below Mul, so not above the captured operator,
\* and the inner loop ends; every parse_binops(lhs, min_prec) that returns Ok
\* leaves a current token of precedence strictly below min_prec
C12_InnerLoopOnce ==
    /\ []C12_State
    /\ [][C12_Step]_vars

\* 1 + 2 * 3 + ...: back in the inner loop with rhs = Mul(2, 3), the second
\* '+' current, and the loop's test failing
C12_Witness ==
    /\ Running("parse_binops", "inner")
    /\ round = 0
    /\ IsArith(tokens)
    /\ Top.op.k = "Plus"
    /\ Top.rhs = ast_bin(ast_num(3), "Mul", ast_num(5))
    /\ cur.k = "Plus"
    /\ ~binops_climbs

(* ------------------------- leaves and nodes -------------------------- *)

RECURSIVE CountBin(_)
\* the binary operations of a tree
CountBin(n) ==
    CASE n.type = "Negate" -> CountBin(n.lhs)
      [] n.type = "Bin" -> 1 + CountBin(n.lhs) + CountBin(n.rhs)
      [] n.type = "Call" -> CountBin(n.callee) + CountBin(n.arg)
      [] OTHER -> 0

\* the tokens of toks that open a call: a left parenthesis after a complete term
CallParens(toks) == {i \in 1..Len(toks) : toks[i].k = "LParen" /\ AfterTerm(toks, i)}

\* C13: when the parse of an input with no Eof before its last token
\* succeeds, the leaves of the tree from left to right are the Id and NumLit
\* tokens of the input in input order, each with its own name or value, and
\* the tree has one BinaryOp per binary operator token, one Negate per unary
\* minus sign and one Call per call parenthesis pair
C13_LeafOrderPreserved ==
    (outcome = "ok" /\ NoInnerEof(tokens)) =>
        LET b == Body(tokens)
        IN  /\ Leaves(result) = LeafToks(b, 1, Len(b))
            /\ CountBin(result) = Cardinality({i \in 1..Len(b) : BinaryAt(b, i)})
            /\ Len(Negates(result)) = Cardinality({i \in 1..Len(b) : UnaryAt(b, i)})
            /\ CountCalls(result) = Cardinality(CallParens(b))
            /\ 2 * CountCalls(result) + 2 * Cardinality({i \in 1..Len(b) :
                    b[i].k = "LParen" /\ ~AfterTerm(b, i)})
                 + CountBin(result) + Len(Negates(result)) + Len(Leaves(result)) = Len(b)

\* - a ( b ) - c has been parsed: three leaves, a negation, a call and a
\* subtraction
C13_Witness ==
    /\ outcome = "ok"
    /\ round = 0
    /\ Kinds(tokens) = <<"Minus", "Id", "LParen", "Id", "RParen", "Minus", "Id">>
    /\ Leaves(result) = <<Tok("Id", 2), Tok("Id", 4), Tok("Id", 7)>>
    /\ result = ast_bin(ast_neg(ast_call(ast_id(2), ast_id(4))), "Sub", ast_id(7))

(* --------------------- an Eof inside the tokens ---------------------- *)

\* the cursor never passes the first Eof token, and a parse that succeeds
\* ends with the cursor on it
C14_StopsAtEof ==
    /\ pos <= Len(UntilEof(tokens))
    /\ outcome = "ok" => (pos = Len(UntilEof(tokens)) /\ cur = TokEof)

\* the parse of the tokens before an inner Eof ends as the parse of all the
\* tokens did
C14_SameAsPrefix ==
    (round = 2 /\ outcome # "running") =>
        /\ outcome = "ok" => (result = orig /\ pos = Len(tokens))
        /\ outcome = "err" => orig = NoNode
        /\ outcome # "panic"

\* C14: an Eof token before the last token ends the parse: when the tokens
\* before it are a complete expression the parse of all the tokens succeeds
\* with the tree of the parse of those tokens and the cursor on that Eof, and
\* no token after it is read or reported as trailing input
C14_InnerEofEndsParse == C14_StopsAtEof /\ C14_SameAsPrefix

\* 1 + 3 Eof and one token more was parsed, and then 1 + 3: the same sum
C14_Witness ==
    /\ round = 2
    /\ outcome = "ok"
    /\ Len(tokens) = 3
    /\ pos = 3
    /\ result = ast_bin(ast_num(1), "Add", ast_num(3))
    /\ orig = result

=============================================================================
